---------------------------- MODULE Spec2Model ----------------------------
(***************************************************************************)
(* xmlmonster: an HTTP server with two builds.                             *)
(*   - the persisting build serves POST /upload and GET /read against an   *)
(*     object store, minting the object keys from an in-memory counter;    *)
(*   - the validating build serves POST /upload and only decodes the body  *)
(*     as XML.                                                             *)
(* Each request is a slot r \in Reqs; the net/http runtime runs every      *)
(* request in a goroutine of its own, so the steps of different slots      *)
(* interleave freely.  A handler is cut where it touches state shared      *)
(* with other goroutines (the counter, the object store), and nowhere      *)
(* else.                                                                   *)
(***************************************************************************)
EXTENDS Integers, Sequences, FiniteSets, TLC

\* ------------------------------------------------------------- bounds
MaxReqs == 3
MaxLen == 1
MaxXmlLen == 2
MaxXmlReqs == 2

\* ---------------------------------------------------------- constants
uploadPath == "/upload"
readFilePath == "/read"
contentTypeTextXML == "text/xml"
contentTypeApplicationXML == "application/xml"

StatusOK == 200
StatusBadRequest == 400
StatusMethodNotAllowed == 405
StatusInternalServerError == 500

\* The fixed bodies, each one []byte(...) literal of the source, kept as one
\* element of a byte sequence.
MsgNotFound == <<"<p>Oops, you walked the wrong path</p>">>
MsgReadBody == <<"failed to read content from body">>
MsgUpload == <<"failed to upload object">>
MsgBucketID == <<"bucket_id is required">>
MsgGetObject == <<"failed to get object">>
MsgReadObject == <<"failed to read object">>

\* ------------------------------------------------------------- inputs
Reqs == 1..MaxReqs
Bytes == {"a", "b"}
Methods == {"GET", "POST", "PUT"}
ContentTypes == {contentTypeTextXML, contentTypeApplicationXML, "application/json", ""}

RECURSIVE SeqsUpTo(_, _)
SeqsUpTo(S, n) ==
    IF n = 0 THEN {<<>>}
    ELSE LET shorter == SeqsUpTo(S, n - 1)
         IN  shorter \cup {Append(s, x) : s \in {t \in shorter : Len(t) = n - 1}, x \in S}

Bodies == SeqsUpTo(Bytes, MaxLen)

Prefixes(s) == {SubSeq(s, 1, n) : n \in 0..Len(s)}

VARIABLES
    variant,    \* which build runs: "persisting" or "validating"
    req,        \* req[r]: the request of slot r
    pc,         \* pc[r]: where slot r's handler stands
    loc,        \* loc[r]: the handler's local variables
    w,          \* w[r]: the http.ResponseWriter of slot r
    reqCount,   \* xmlParseHandler.reqCount
    store,      \* the objects of bucket "bucket1": key -> bytes
    minted,     \* history: the keys composeBucketID returned, in order
    hist,       \* hist[r]: history of slot r (what it called, what it saw)
    ctxDone,    \* the signal context is cancelled
    inShutdown, \* serv.Shutdown has been called: the listeners are closed
    shutdownPc, \* the signal goroutine
    mainPc,     \* the main goroutine
    graceExpired, \* timeoutCtx is done
    atSignal    \* history: the requests in flight when the signal came

vars == <<variant, req, pc, loc, w, reqCount, store, minted, hist,
          ctxDone, inShutdown, shutdownPc, mainPc, graceExpired, atSignal>>

shared == <<reqCount, store, minted>>
lifecycle == <<ctxDone, inShutdown, shutdownPc, mainPc, graceExpired, atSignal>>

\* ----------------------------------------------------- http.Request
NoReq == [path |-> "", method |-> "", ctype |-> "", hasBucketID |-> FALSE, bucket_id |-> ""]

\* r.URL.Query().Get("bucket_id"): "" when the parameter is absent
QueryGet(q) == IF q.hasBucketID THEN q.bucket_id ELSE ""

\* ----------------------------------------------- http.ResponseWriter
\* status 0: no header written yet.  nWriteHeader and nWrite count the
\* handler's calls.
NewWriter == [status |-> 0, body |-> <<>>, contentType |-> "", nWriteHeader |-> 0, nWrite |-> 0]

\* The first WriteHeader decides the status; net/http drops a later one
\* ("superfluous response.WriteHeader call").
WriteHeader(rw, statusCode) ==
    [rw EXCEPT !.status = IF @ = 0 THEN statusCode ELSE @,
               !.nWriteHeader = @ + 1]

\* Write sends the header with 200 when none was written, then the bytes.
Write(rw, bytes) ==
    [rw EXCEPT !.status = IF @ = 0 THEN StatusOK ELSE @,
               !.body = @ \o bytes,
               !.nWrite = @ + 1]

SetContentType(rw, ct) ==
    [rw EXCEPT !.contentType = IF rw.status = 0 THEN ct ELSE @]

httpWrite(rw, statusCode, bytes) ==
    LET w1 == WriteHeader(rw, statusCode)
    IN  IF Len(bytes) > 0 THEN Write(w1, bytes) ELSE w1

writeNotFound(rw) == Write(rw, MsgNotFound)

\* ------------------------------------------------------ key generator
\* fmt.Sprintf("xmlobject/%d", n)
FormatKey(n) == "xmlobject/" \o ToString(n)

\* Faulty variant: the counter is read and written back unchanged (a lost update).
composeBucketID_LostUpdate(count) ==
    [count |-> count, id |-> FormatKey(count + 1)]

\* Faulty variant: the key is formatted from the value before the increment.
composeBucketID_PostIncrement(count) ==
    [count |-> count + 1, id |-> FormatKey(count)]

\* reqCount.Add(1) returns the new value; the key is formatted from it.
composeBucketID(count) ==
    [count |-> count + 1, id |-> FormatKey(count + 1)]

\* The number a key was formatted from (0 when it is none of the keys).
KeyNum(k) ==
    IF \E n \in 1..(MaxReqs + 1) : FormatKey(n) = k
    THEN CHOOSE n \in 1..(MaxReqs + 1) : FormatKey(n) = k
    ELSE 0

\* ------------------------------------------------------- object store
\* cli.PutObject(ctx, "bucket1", key, bytes, ...) when it succeeds
PutObject(st, key, bytes) ==
    [k \in DOMAIN st \cup {key} |-> IF k = key THEN bytes ELSE st[k]]

\* --------------------------------------------------- request inputs
ReadKeys == {FormatKey(n) : n \in Reqs}
UploadRequests ==
    {[path |-> uploadPath, method |-> m, ctype |-> c, hasBucketID |-> FALSE, bucket_id |-> ""] :
        m \in Methods, c \in ContentTypes}
Queries ==
    {[has |-> FALSE, id |-> ""]} \cup {[has |-> TRUE, id |-> b] : b \in ReadKeys \cup {""}}
ReadRequests ==
    {[path |-> readFilePath, method |-> m, ctype |-> "", hasBucketID |-> k.has, bucket_id |-> k.id] :
        m \in Methods, k \in Queries}
OtherRequests ==
    {[path |-> "/foo", method |-> m, ctype |-> "", hasBucketID |-> FALSE, bucket_id |-> ""] :
        m \in Methods}

NoLoc == [rawXML |-> <<>>, bucketID |-> "", data |-> <<>>, err |-> FALSE]
NoHist == [bodyRead |-> FALSE, getCalled |-> FALSE, known |-> FALSE, fault |-> FALSE]

\* The server takes a new request while it listens.
Accepting == mainPc = "serving" /\ ~inShutdown
\* A handler runs while the process does.
Running == mainPc # "exited"

Init ==
    /\ variant \in {"persisting", "validating"}
    /\ req = [r \in Reqs |-> NoReq]
    /\ pc = [r \in Reqs |-> "idle"]
    /\ loc = [r \in Reqs |-> NoLoc]
    /\ w = [r \in Reqs |-> NewWriter]
    /\ reqCount = 0
    /\ store = <<>>
    /\ minted = <<>>
    /\ hist = [r \in Reqs |-> NoHist]
    /\ ctxDone = FALSE
    /\ inShutdown = FALSE
    /\ shutdownPc = "wait"
    /\ mainPc = "serving"
    /\ graceExpired = FALSE
    /\ atSignal = {}

\* Slot r receives request q.  Slots are taken in order: which slot a
\* request gets changes nothing.
Arrive(r, q) ==
    /\ Accepting
    /\ pc[r] = "idle"
    /\ \A s \in Reqs : s < r => pc[s] # "idle"
    /\ req' = [req EXCEPT ![r] = q]

\* Faulty variant: only text/xml passes.
UploadValidate_TextOnly(method, ctype) ==
    IF method # "POST" THEN StatusMethodNotAllowed
    ELSE IF ctype # contentTypeTextXML THEN StatusBadRequest
         ELSE 0

\* ------------------------------------------------- persisting build
\* handleUpload's checks: 0 when the request passes.
UploadValidate(method, ctype) ==
    IF method # "POST" THEN StatusMethodNotAllowed
    ELSE IF ctype # contentTypeTextXML /\ ctype # contentTypeApplicationXML
         THEN StatusBadRequest
         ELSE 0

\* The results of io.ReadAll(r.Body)
BodyReads ==
    {[ok |-> TRUE, bytes |-> b] : b \in Bodies} \cup {[ok |-> FALSE, bytes |-> <<>>]}

\* handleUpload from its entry to composeBucketID
handleUpload(r) ==
    /\ variant = "persisting"
    /\ \E q \in UploadRequests :
        /\ Arrive(r, q)
        /\ LET v == UploadValidate(q.method, q.ctype)
           IN  IF v # 0
               THEN /\ w' = [w EXCEPT ![r] = WriteHeader(@, v)]
                    /\ pc' = [pc EXCEPT ![r] = "done"]
                    /\ UNCHANGED <<loc, hist, shared>>
               ELSE \E in \in BodyReads :
                    /\ hist' = [hist EXCEPT ![r].bodyRead = TRUE]
                    /\ IF ~in.ok
                       THEN /\ w' = [w EXCEPT ![r] = httpWrite(@, StatusInternalServerError, MsgReadBody)]
                            /\ pc' = [pc EXCEPT ![r] = "done"]
                            /\ loc' = [loc EXCEPT ![r].err = TRUE]
                            /\ UNCHANGED shared
                       ELSE LET c == composeBucketID(reqCount)
                            IN  /\ reqCount' = c.count
                                /\ minted' = Append(minted, c.id)
                                /\ loc' = [loc EXCEPT ![r].rawXML = in.bytes, ![r].bucketID = c.id]
                                /\ pc' = [pc EXCEPT ![r] = "put"]
                                /\ UNCHANGED <<w, store>>
    /\ UNCHANGED <<variant, lifecycle>>

\* Faulty variant: the test of err is inverted.
UploadResponse_ErrInverted(rw, bucketID, err) ==
    IF ~err THEN httpWrite(rw, StatusInternalServerError, <<"failed to upload object">>)
    ELSE httpWrite(rw, StatusOK, <<bucketID>>)

\* handleUpload after PutObject returned err
UploadResponse(rw, bucketID, err) ==
    IF err THEN httpWrite(rw, StatusInternalServerError, MsgUpload)
    ELSE httpWrite(rw, StatusOK, <<bucketID>>)

\* handleUpload from PutObject to its end.  A PutObject that returns an
\* error has stored nothing.
handleUploadPut(r) ==
    /\ Running
    /\ pc[r] = "put"
    /\ \E err \in BOOLEAN :
        /\ store' = IF err THEN store ELSE PutObject(store, loc[r].bucketID, loc[r].rawXML)
        /\ loc' = [loc EXCEPT ![r].err = err]
        /\ w' = [w EXCEPT ![r] = UploadResponse(@, loc[r].bucketID, err)]
    /\ pc' = [pc EXCEPT ![r] = "done"]
    /\ UNCHANGED <<variant, req, reqCount, minted, hist, lifecycle>>

\* Faulty variant: the test of an empty bucket_id is missing.
ReadValidate_NoEmptyCheck(method, bucketID) ==
    IF method # "GET" THEN StatusMethodNotAllowed ELSE 0

\* handleRead's checks: 0 when the request passes.
ReadValidate(method, bucketID) ==
    IF method # "GET" THEN StatusMethodNotAllowed
    ELSE IF bucketID = "" THEN StatusBadRequest
         ELSE 0

\* The keys the 200 responses written so far have returned
ReturnedKeys ==
    {loc[u].bucketID : u \in {s \in Reqs : /\ pc[s] = "done"
                                           /\ req[s].path = uploadPath
                                           /\ w[s].status = StatusOK}}

\* handleRead from its entry to GetObject.  GetObject returns an error or an
\* object; the bytes of the object, and whether the bucket holds it at all,
\* come with io.ReadAll(obj).
handleRead(r) ==
    /\ variant = "persisting"
    /\ \E q \in ReadRequests :
        /\ Arrive(r, q)
        /\ LET v == ReadValidate(q.method, QueryGet(q))
           IN  IF v = StatusMethodNotAllowed
               THEN /\ w' = [w EXCEPT ![r] = WriteHeader(@, v)]
                    /\ pc' = [pc EXCEPT ![r] = "done"]
                    /\ UNCHANGED <<loc, hist>>
               ELSE IF v = StatusBadRequest
               THEN /\ w' = [w EXCEPT ![r] =
                              httpWrite(SetContentType(@, contentTypeApplicationXML), v, MsgBucketID)]
                    /\ pc' = [pc EXCEPT ![r] = "done"]
                    /\ UNCHANGED <<loc, hist>>
               ELSE \E err \in BOOLEAN :
                    /\ hist' = [hist EXCEPT ![r].getCalled = TRUE,
                                            ![r].known = QueryGet(q) \in ReturnedKeys,
                                            ![r].fault = err /\ QueryGet(q) \in DOMAIN store]
                    /\ loc' = [loc EXCEPT ![r].bucketID = QueryGet(q), ![r].err = err]
                    /\ IF err
                       THEN /\ w' = [w EXCEPT ![r] =
                                      httpWrite(SetContentType(@, contentTypeApplicationXML),
                                                StatusInternalServerError, MsgGetObject)]
                            /\ pc' = [pc EXCEPT ![r] = "done"]
                       ELSE /\ w' = [w EXCEPT ![r] = SetContentType(@, contentTypeApplicationXML)]
                            /\ pc' = [pc EXCEPT ![r] = "drain"]
    /\ UNCHANGED <<variant, shared, lifecycle>>

\* The results of io.ReadAll(obj): the object, or an error after some of
\* its bytes; an object that is not in the bucket gives an error at once.
ObjectReads(st, key) ==
    IF key \notin DOMAIN st
    THEN {[err |-> TRUE, data |-> <<>>, fault |-> FALSE]}
    ELSE {[err |-> FALSE, data |-> st[key], fault |-> FALSE]}
         \cup {[err |-> TRUE, data |-> p, fault |-> TRUE] : p \in Prefixes(st[key])}

\* Faulty variant: the 200 response carries no body.
ReadResponse_NoBody(rw, data, err) ==
    LET w1 == IF err THEN httpWrite(rw, StatusInternalServerError, <<"failed to read object">>) ELSE rw
    IN  httpWrite(w1, StatusOK, <<>>)

\* Faulty variant: the error of io.ReadAll is dropped.
ReadResponse_IgnoreErr(rw, data, err) ==
    httpWrite(rw, StatusOK, data)

\* handleRead after io.ReadAll(obj) returned data, err
ReadResponse(rw, data, err) ==
    LET w1 == IF err THEN httpWrite(rw, StatusInternalServerError, MsgReadObject) ELSE rw
    IN  httpWrite(w1, StatusOK, data)

\* handleRead from io.ReadAll(obj) to its end
handleReadDrain(r) ==
    /\ Running
    /\ pc[r] = "drain"
    /\ \E res \in ObjectReads(store, loc[r].bucketID) :
        /\ loc' = [loc EXCEPT ![r].data = res.data, ![r].err = res.err]
        /\ hist' = [hist EXCEPT ![r].fault = res.fault]
        /\ w' = [w EXCEPT ![r] = ReadResponse(@, res.data, res.err)]
    /\ pc' = [pc EXCEPT ![r] = "done"]
    /\ UNCHANGED <<variant, req, shared, lifecycle>>

\* ServeHTTP's default case
notFound(r) ==
    /\ variant = "persisting"
    /\ \E q \in OtherRequests :
        /\ Arrive(r, q)
        /\ w' = [w EXCEPT ![r] = writeNotFound(@)]
        /\ pc' = [pc EXCEPT ![r] = "done"]
    /\ UNCHANGED <<variant, loc, hist, shared, lifecycle>>

\* ------------------------------------------------- validating build
\* The body as the tokens encoding/xml reads from it: a start tag, its end
\* tag, an end tag of another name, character data, and one complete
\* element holding the three fields.
StartTag == "<xmlPayload>"
EndTag == "</xmlPayload>"
OtherEndTag == "</other>"
CharData == "not xml at all"
FullPayload == "<xmlPayload><UserFrom>a</UserFrom><UserTo>b</UserTo><Message>hi</Message></xmlPayload>"
XmlTokens == {StartTag, EndTag, OtherEndTag, CharData, FullPayload}
XmlBodies == SeqsUpTo(XmlTokens, MaxXmlLen)

\* decoder.Decode(&v): TRUE when it returns no error.  It skips what comes
\* before the first start tag, then reads to the matching end tag and no
\* further; the end of the body before that, or an end tag that closes
\* nothing or another name, is an error.  depth: the elements open.
RECURSIVE DecodeFrom(_, _)
DecodeFrom(body, depth) ==
    IF body = <<>> THEN FALSE
    ELSE LET tok == Head(body)
             rest == Tail(body)
         IN  CASE tok = CharData -> DecodeFrom(rest, depth)
               [] tok = FullPayload -> IF depth = 0 THEN TRUE ELSE DecodeFrom(rest, depth)
               [] tok = StartTag -> DecodeFrom(rest, depth + 1)
               [] tok = EndTag -> IF depth = 0 THEN FALSE
                                  ELSE IF depth = 1 THEN TRUE
                                  ELSE DecodeFrom(rest, depth - 1)
               [] OTHER -> FALSE

Decode(body) == DecodeFrom(body, 0)

\* ServeHTTP's checks (validating build): 0 when the request passes.
ServeHTTPValidate(method, ctype) ==
    IF method # "POST" THEN StatusMethodNotAllowed
    ELSE IF ctype # contentTypeTextXML /\ ctype # contentTypeApplicationXML
         THEN StatusBadRequest
         ELSE 0

\* ServeHTTP (validating build)
ServeHTTPValidating(r) ==
    /\ variant = "validating"
    /\ r <= MaxXmlReqs
    /\ \E q \in UploadRequests \cup OtherRequests :
        /\ Arrive(r, q)
        /\ IF q.path # uploadPath
           THEN /\ w' = [w EXCEPT ![r] = writeNotFound(@)]
                /\ pc' = [pc EXCEPT ![r] = "done"]
           ELSE LET v == ServeHTTPValidate(q.method, q.ctype)
                IN  IF v # 0
                    THEN /\ w' = [w EXCEPT ![r] = WriteHeader(@, v)]
                         /\ pc' = [pc EXCEPT ![r] = "done"]
                    ELSE /\ pc' = [pc EXCEPT ![r] = "decode"]
                         /\ UNCHANGED w
    /\ UNCHANGED <<variant, loc, hist, shared, lifecycle>>

\* Faulty variant: the error of Decode is dropped.
DecodeResponse_AlwaysOK(rw, ok) ==
    WriteHeader(rw, StatusOK)

\* handleUpload's response (validating build)
DecodeResponse(rw, ok) ==
    IF ~ok THEN WriteHeader(rw, StatusBadRequest) ELSE WriteHeader(rw, StatusOK)

\* handleUpload (validating build)
handleUploadValidating(r) ==
    /\ Running
    /\ pc[r] = "decode"
    /\ \E body \in XmlBodies :
        /\ loc' = [loc EXCEPT ![r].rawXML = body, ![r].err = ~Decode(body)]
        /\ hist' = [hist EXCEPT ![r].bodyRead = TRUE]
        /\ w' = [w EXCEPT ![r] = DecodeResponse(@, Decode(body))]
    /\ pc' = [pc EXCEPT ![r] = "done"]
    /\ UNCHANGED <<variant, req, shared, lifecycle>>

\* ------------------------------------------------------------- main
InFlight == {r \in Reqs : pc[r] \notin {"idle", "done"}}

\* SIGINT or SIGTERM: ctx.Done() is closed
Signal ==
    /\ Running
    /\ ~ctxDone
    /\ ctxDone' = TRUE
    /\ atSignal' = InFlight
    /\ UNCHANGED <<variant, req, pc, loc, w, shared, hist, inShutdown, shutdownPc, mainPc, graceExpired>>

\* The goroutine of main: after <-ctx.Done() it calls serv.Shutdown, which
\* closes the listeners and then waits for the connections.
ShutdownCall ==
    /\ Running
    /\ ctxDone
    /\ shutdownPc = "wait"
    /\ shutdownPc' = "polling"
    /\ inShutdown' = TRUE
    /\ UNCHANGED <<variant, req, pc, loc, w, shared, hist, ctxDone, mainPc, graceExpired, atSignal>>

\* time.Second*5 after Shutdown was called
GraceTimeout ==
    /\ Running
    /\ shutdownPc = "polling"
    /\ ~graceExpired
    /\ graceExpired' = TRUE
    /\ UNCHANGED <<variant, req, pc, loc, w, shared, hist, ctxDone, inShutdown, shutdownPc, mainPc, atSignal>>

\* serv.Shutdown returns: no connection is active, or timeoutCtx is done
ShutdownReturn ==
    /\ Running
    /\ shutdownPc = "polling"
    /\ InFlight = {} \/ graceExpired
    /\ shutdownPc' = "returned"
    /\ UNCHANGED <<variant, req, pc, loc, w, shared, hist, ctxDone, inShutdown, mainPc, graceExpired, atSignal>>

\* What main does when ListenAndServe[TLS] returns: the error is never nil
\* (http.ErrServerClosed once Shutdown was called), so log.Fatal exits.
AfterListenAndServe(err) == IF err THEN "exited" ELSE "returned"

\* main: ListenAndServe[TLS] returns as soon as Shutdown is called
MainReturn ==
    /\ mainPc = "serving"
    /\ inShutdown
    /\ mainPc' = AfterListenAndServe(TRUE)
    /\ UNCHANGED <<variant, req, pc, loc, w, shared, hist, ctxDone, inShutdown, shutdownPc, graceExpired, atSignal>>

Next ==
    \E r \in Reqs :
        \/ handleUpload(r)
        \/ handleUploadPut(r)
        \/ handleRead(r)
        \/ handleReadDrain(r)
        \/ notFound(r)
        \/ ServeHTTPValidating(r)
        \/ handleUploadValidating(r)

\* The program of main.go: the validating build with its main.  (The main
\* of the persisting build is the same code around ListenAndServeTLS.)
InitLifecycle == Init /\ variant = "validating"

NextLifecycle ==
    \/ \E r \in Reqs :
        \/ ServeHTTPValidating(r)
        \/ handleUploadValidating(r)
    \/ Signal
    \/ ShutdownCall
    \/ GraceTimeout
    \/ ShutdownReturn
    \/ MainReturn

Spec == Init /\ [][Next]_vars

SpecLifecycle == InitLifecycle /\ [][NextLifecycle]_vars

\* ================================================================ claims
Done(r) == pc[r] = "done"
IsUpload(r) == req[r].path = "/upload"
IsRead(r) == req[r].path = "/read"
Persisting == variant = "persisting"
Quiescent == \A r \in Reqs : pc[r] \in {"idle", "done"}
XmlType(c) == c \in {"text/xml", "application/xml"}

\* The uploads answered 200, and the numbers of the keys they returned
Uploaded == {r \in Reqs : Persisting /\ Done(r) /\ IsUpload(r) /\ w[r].status = 200}
ReturnedNums == {KeyNum(loc[r].bucketID) : r \in Uploaded}
\* The uploads whose PutObject failed
PutFailed ==
    {r \in Reqs : Persisting /\ Done(r) /\ IsUpload(r) /\ w[r].status = 500
                  /\ w[r].body = <<"failed to upload object">>}

C1_Distinct ==
    \A r1, r2 \in Uploaded : r1 # r2 => loc[r1].bucketID # loc[r2].bucketID
C1_Increasing ==
    /\ \A i, j \in DOMAIN minted : i < j => KeyNum(minted[i]) < KeyNum(minted[j])
    /\ \A r \in Uploaded : \E i \in DOMAIN minted : minted[i] = loc[r].bucketID
    /\ \A r \in Uploaded : w[r].body = <<loc[r].bucketID>>

\* C1 as stated: once every upload has been answered, the keys of the 200
\* responses are pairwise distinct, increase in the order they were minted,
\* and their numbers form a range with no number skipped.
C1_Original ==
    Quiescent =>
        /\ C1_Distinct
        /\ C1_Increasing
        /\ \A a, b \in ReturnedNums : \A n \in a..b : n \in ReturnedNums

\* C1 amended: the keys of the 200 responses are pairwise distinct and
\* increase in the order they were minted; a number minted and not returned
\* belongs to an upload that is still at PutObject or whose PutObject failed
\* (answered 500), and to nothing else.
C1_KeysDistinctIncreasingGapsFromFailedPuts ==
    /\ C1_Distinct
    /\ C1_Increasing
    /\ \A n \in 1..reqCount :
        \/ n \in ReturnedNums
        \/ \E r \in Reqs : /\ loc[r].bucketID = FormatKey(n)
                           /\ IsUpload(r)
                           /\ pc[r] = "put" \/ r \in PutFailed
    /\ \A r \in PutFailed : KeyNum(loc[r].bucketID) \notin ReturnedNums

\* Three uploads, all answered: keys 1 and 3 returned, key 2 lost to a failed put.
C1_Witness ==
    /\ Quiescent
    /\ ReturnedNums = {1, 3}
    /\ \E r \in PutFailed : loc[r].bucketID = "xmlobject/2"

\* C2: a GET /read of a key that a 200 upload response had returned before
\* the read arrived, served by a store that does not fail, is answered 200
\* with exactly the bytes that upload sent.
C2_RoundTrip ==
    \A r \in Reqs :
        (Persisting /\ Done(r) /\ IsRead(r) /\ req[r].method = "GET"
            /\ hist[r].known /\ ~hist[r].fault) =>
        /\ w[r].status = 200
        /\ w[r].contentType = "application/xml"
        /\ \E u \in Uploaded : /\ loc[u].bucketID = QueryGet(req[r])
                               /\ w[r].body = loc[u].rawXML

\* A read that returned a stored byte while another request was handled
\* between the upload and the read.
C2_Witness ==
    \E r, u, o \in Reqs :
        /\ u < o /\ o < r
        /\ Done(r) /\ IsRead(r) /\ hist[r].known /\ ~hist[r].fault
        /\ u \in Uploaded /\ loc[u].bucketID = QueryGet(req[r])
        /\ loc[u].rawXML = <<"b">>
        /\ w[r].body = <<"b">>
        /\ Done(o)

\* The uploads that advanced the counter
Minters == {r \in Reqs : IsUpload(r) /\ loc[r].bucketID # ""}

C3_Store ==
    /\ DOMAIN store = {loc[r].bucketID : r \in Uploaded}
    /\ \A r \in Uploaded : store[loc[r].bucketID] = loc[r].rawXML

\* C3 as stated: the counter counts the uploads answered 200 (and those
\* still at PutObject), an upload answered with an error has not advanced
\* it, and the store holds the objects of the uploads answered 200 only.
C3_Original ==
    Persisting =>
        /\ reqCount = Cardinality(Minters)
        /\ \A r \in Reqs : (Done(r) /\ IsUpload(r)) => (r \in Minters <=> w[r].status = 200)
        /\ C3_Store

\* C3 amended: an upload answered 405, 400 or 500 after a failed body read
\* has not advanced the counter; one answered 500 after a failed PutObject
\* has advanced it by one; no upload answered with an error has added an
\* object, and each upload answered 200 has advanced the counter by one and
\* added its object.
C3_ErrorLeavesStoreAndCounterButPutFailure ==
    Persisting =>
        /\ reqCount = Cardinality(Minters)
        /\ \A r \in Reqs : (Done(r) /\ IsUpload(r)) =>
            /\ w[r].status \in {200, 400, 405, 500}
            /\ r \in Minters <=> (w[r].status = 200 \/ r \in PutFailed)
            /\ w[r].status = 500 =>
                w[r].body \in {<<"failed to upload object">>, <<"failed to read content from body">>}
        /\ C3_Store

\* An upload whose put failed beside one rejected with 400.
C3_Witness ==
    \E r1, r2 \in Reqs :
        /\ r1 \in PutFailed /\ r1 \in Minters /\ reqCount >= 1
        /\ Done(r2) /\ IsUpload(r2) /\ w[r2].status = 400 /\ r2 \notin Minters

\* C4: in both builds a request to /upload passes the checks iff it is a
\* POST with Content-Type text/xml or application/xml; any other method is
\* answered 405, a POST with another or no content type 400, and the body
\* of a request answered 405 or 400 is not read.
C4_UploadValidation ==
    \A r \in Reqs :
        IsUpload(r) =>
            /\ (Done(r) /\ req[r].method # "POST") =>
                    w[r].status = 405 /\ ~hist[r].bodyRead
            /\ (Done(r) /\ req[r].method = "POST" /\ ~XmlType(req[r].ctype)) =>
                    w[r].status = 400 /\ ~hist[r].bodyRead
            /\ (Done(r) /\ req[r].method = "POST" /\ XmlType(req[r].ctype)) =>
                    hist[r].bodyRead
            /\ pc[r] \in {"put", "decode"} =>
                    req[r].method = "POST" /\ XmlType(req[r].ctype)

\* A POST of application/json answered 400 beside a POST of application/xml
\* that passed.
C4_Witness ==
    \E r1, r2 \in Reqs :
        /\ Done(r1) /\ IsUpload(r1) /\ req[r1].method = "POST"
        /\ req[r1].ctype = "application/json" /\ w[r1].status = 400
        /\ Done(r2) /\ IsUpload(r2) /\ req[r2].ctype = "application/xml" /\ w[r2].status = 200

\* C5: the step that takes a request to /read whose method is not GET
\* answers 405, and one that takes a GET with no or an empty bucket_id
\* answers 400; neither calls GetObject nor changes the counter or the store.
C5_ReadValidation ==
    [][\A r \in Reqs :
        (/\ pc[r] = "idle" /\ pc'[r] # "idle"
         /\ req'[r].path = "/read"
         /\ req'[r].method # "GET" \/ QueryGet(req'[r]) = "") =>
        (/\ pc'[r] = "done"
         /\ w'[r].status = IF req'[r].method # "GET" THEN 405 ELSE 400
         /\ ~hist'[r].getCalled
         /\ reqCount' = reqCount
         /\ store' = store)]_vars

\* A GET /read with no bucket_id answered 400 beside a DELETE-like method
\* answered 405, with an object in the store.
C5_Witness ==
    \E r1, r2 \in Reqs :
        /\ Done(r1) /\ IsRead(r1) /\ req[r1].method = "GET" /\ ~req[r1].hasBucketID
        /\ w[r1].status = 400 /\ ~hist[r1].getCalled
        /\ Done(r2) /\ IsRead(r2) /\ req[r2].method = "PUT" /\ w[r2].status = 405
        /\ DOMAIN store # {}

\* C6: a GET /read with a non-empty bucket_id whose retrieval failed, at
\* GetObject or at io.ReadAll, or whose key is not in the store, is
\* answered 500.
C6_RetrievalFailureIs500 ==
    \A r \in Reqs :
        (Persisting /\ Done(r) /\ IsRead(r) /\ req[r].method = "GET" /\ QueryGet(req[r]) # ""
            /\ (loc[r].err \/ QueryGet(req[r]) \notin DOMAIN store)) =>
        /\ w[r].status = 500
        /\ w[r].status # 404
        /\ w[r].status # 200

\* A read of a key never stored, failing at io.ReadAll, beside one failing
\* at GetObject.
C6_Witness ==
    \E r1, r2 \in Reqs :
        /\ Done(r1) /\ IsRead(r1) /\ loc[r1].err /\ QueryGet(req[r1]) \notin DOMAIN store
        /\ w[r1].body = <<"failed to read object">> /\ w[r1].status = 500
        /\ Done(r2) /\ IsRead(r2) /\ loc[r2].err
        /\ w[r2].body = <<"failed to get object">> /\ w[r2].status = 500

\* C7: in the validating build a POST /upload of an XML content type is
\* answered 200 with no body when Decode succeeds (also for an element
\* without the three fields) and 400 when it fails; two requests that are
\* the same get the same response, and the build has no state to change.
C7_ValidatingUpload ==
    variant = "validating" =>
        /\ \A r \in Reqs :
            (Done(r) /\ IsUpload(r) /\ req[r].method = "POST" /\ XmlType(req[r].ctype)) =>
                /\ w[r].body = <<>>
                /\ w[r].status = IF Decode(loc[r].rawXML) THEN 200 ELSE 400
                /\ loc[r].rawXML = <<FullPayload>> => w[r].status = 200
                /\ loc[r].rawXML = <<StartTag, EndTag>> => w[r].status = 200
                /\ loc[r].rawXML = <<CharData>> => w[r].status = 400
                /\ loc[r].rawXML = <<>> => w[r].status = 400
        /\ \A r1, r2 \in Reqs :
            (Done(r1) /\ Done(r2) /\ req[r1] = req[r2] /\ loc[r1].rawXML = loc[r2].rawXML) =>
                w[r1] = w[r2]
        /\ reqCount = 0 /\ store = <<>> /\ minted = <<>>

\* An element without the fields answered 200 beside "not xml at all"
\* answered 400.
C7_Witness ==
    \E r1, r2 \in Reqs :
        /\ variant = "validating"
        /\ Done(r1) /\ loc[r1].rawXML = <<StartTag, EndTag>> /\ w[r1].status = 200
        /\ Done(r2) /\ loc[r2].rawXML = <<CharData>> /\ w[r2].status = 400

\* C8 as stated: the process has not exited while a request that was in
\* flight when the signal came is still handled, unless the grace period
\* has expired.
C8_GracefulShutdown ==
    mainPc = "exited" =>
        \/ graceExpired
        \/ \A r \in atSignal : Done(r)

\* C9: the k-th key minted is "xmlobject/k", the first "xmlobject/1", and
\* the counter is the number of keys minted.
C9_KeyNumbering ==
    /\ reqCount = Len(minted)
    /\ \A k \in DOMAIN minted : minted[k] = "xmlobject/" \o ToString(k)
    /\ Len(minted) >= 1 => minted[1] = "xmlobject/1"
    /\ \A k \in DOMAIN minted : minted[k] # "xmlobject/0"
    /\ \A r \in Reqs : loc[r].bucketID # "" /\ IsUpload(r) =>
            \E k \in DOMAIN minted : minted[k] = loc[r].bucketID

\* Three keys minted.
C9_Witness ==
    /\ reqCount = 3
    /\ minted = <<"xmlobject/1", "xmlobject/2", "xmlobject/3">>

\* C10 as stated: handleUpload and handleRead call WriteHeader at most once
\* and Write at most once, and the body is one fixed message or the payload.
C10_SingleResponse ==
    \A r \in Reqs :
        (Persisting /\ (IsUpload(r) \/ IsRead(r))) =>
            /\ w[r].nWriteHeader <= 1
            /\ w[r].nWrite <= 1
            /\ (Done(r) /\ IsRead(r) /\ loc[r].err /\ hist[r].getCalled) =>
                    w[r].body \in {<<"failed to get object">>, <<"failed to read object">>}

=============================================================================
